---- MODULE Spec2Model ----
(***************************************************************************)
(* useStableRef (src/unnamed/part_001): a stable reference cell bound to   *)
(* a call site of a React component.  The hook dispatches on its           *)
(* arguments to one of three implementations:                              *)
(*   useSimpleRef               (value)                                    *)
(*   useNonDisposableStableRef  (builder, dependencies)                    *)
(*   useDisposableStableRef     (builder, cleanup, dependencies)           *)
(* The host (React) drives the call site through render (compute phase),   *)
(* commit (passive effects: destroy of the previous effect, then create),  *)
(* and unmount (destroy of the mounted effect).  The caller keeps the      *)
(* returned ref and may read or assign ref.current at any time.            *)
(***************************************************************************)
EXTENDS Integers, Sequences, FiniteSets, TLC

(* ------------------------------ bounds --------------------------------- *)
\* number of render calls explored at the call site
MaxRenders == 3
\* number of assignments to ref.current the caller makes
MaxWrites == 1

(* --------------------------- JavaScript values ------------------------- *)
\* every JS value is a record of one shape so that values compare by ===
Undefined == [k |-> "undefined", n |-> 0, d |-> <<>>]
Null == [k |-> "null", n |-> 0, d |-> <<>>]
\* const unique_symbol = Symbol("internal stable ref")
unique_symbol == [k |-> "symbol", n |-> 0, d |-> <<>>]
\* a primitive the caller supplies or assigns
Num(i) == [k |-> "number", n |-> i, d |-> <<>>]
\* a function closure (builder or cleanup) created by the caller in a render
Fn(i) == [k |-> "function", n |-> i, d |-> <<>>]
\* the object returned by the i-th builder invocation (fresh identity)
Obj(i) == [k |-> "object", n |-> i, d |-> <<>>]
\* a dependency list
Arr(s) == [k |-> "array", n |-> 0, d |-> s]

isFunction(x) == x.k = "function"
isNil(x) == x.k \in {"null", "undefined"}

\* the dependency lists the caller supplies: of one length (React requires
\* the size constant per call site), differing in the order of their elements
DepLists == {Arr(<<1, 2>>), Arr(<<2, 1>>)}
\* the builder / cleanup closures the caller supplies
Closures == {Fn(1), Fn(2)}
\* values supplied in passthrough mode: primitives, and a callable
SuppliedValues == {Num(1), Num(2), Fn(1)}
\* the value the caller assigns to ref.current
AssignedValues == {Num(7)}

\* shallow, order-sensitive equality of two dependency lists; an absent list
\* never equals a present one
shallowCompare(a, b) ==
  IF a.k # "array" \/ b.k # "array" THEN a = b
  ELSE /\ Len(a.d) = Len(b.d)
       /\ \A i \in 1..Len(a.d) : a.d[i] = b.d[i]

\* React's comparison of an effect's dependency array with the committed one
areHookInputsEqual(next, prev) ==
  /\ prev.k = "array"
  /\ \A i \in 1..Len(next.d) : i <= Len(prev.d) => next.d[i] = prev.d[i]

(* ------------------------------ call shapes ---------------------------- *)
Shapes == {"value", "value_cleanup", "builder_deps", "value_deps",
           "builder_cleanup_deps"}

\* the argument triples <<param1, param2, param3>> of a call shape
ArgsOf(s) ==
  CASE s = "value" ->
         {<<v, nil, Undefined>> : v \in SuppliedValues,
                                  nil \in {Undefined, Null}}
    [] s = "value_cleanup" ->
         {<<v, Fn(1), nil>> : v \in SuppliedValues,
                              nil \in {Undefined, Null}}
    [] s = "builder_deps" ->
         {<<b, dl, Undefined>> : b \in Closures, dl \in DepLists}
    [] s = "value_deps" ->
         {<<Num(1), dl, Undefined>> : dl \in DepLists}
    [] s = "builder_cleanup_deps" ->
         {<<b, c, dl>> : b \in Closures, c \in Closures, dl \in DepLists}

(* -------------------------------- state -------------------------------- *)
VARIABLES
  shape,          \* the call shape of the call site (fixed)
  phase,          \* position of the host at this call site
  renders,        \* number of render calls made so far
  args,           \* <<param1, param2, param3>> of the latest render
  mode,           \* implementation the latest call dispatched to
  cellId,         \* identity of the memoized ref object (0: none yet)
  firstRef,       \* identity of the ref the first call returned (0: none)
  lastRef,        \* identity of the ref the latest call returned
  cur,            \* ref.current (closure variable `current` of the wrapper)
  isInitialized,  \* wrapper.isInitialized
  refDeps,        \* ref.dependencies of the non-disposable ref
  effDeps,        \* dependency array of the committed effect
  effDestroy,     \* destroy function of the mounted effect: [has, val]
  stableBuilder,  \* closure useEffectEvent(builder) dispatches to
  stableCleanup,  \* closure useEffectEvent(cleanup) dispatches to
  nBuilt,         \* number of objects builders have returned
  log,            \* commit / builder / install / cleanup events, in order
  lastRead,       \* outcome of a read of ref.current made in this state
  doneArgs,       \* arguments of the latest call that returned normally
  writes,         \* number of assignments the caller has made
  callerWrote,    \* ref.current holds a value the caller assigned
  renderChanged,  \* the latest render changed a returned cell's state
  storedAtCleanup, \* ref.current just before the latest cleanup call
  committedArgs,  \* arguments of the latest committed render
  cleanupAtBuild, \* cleanup closure committed when the value was built
  depsHist,       \* dependency lists of the eager calls that returned
  memoDeps        \* dependency array the memoized getSnapshot was made with

vars == <<shape, phase, renders, args, mode, cellId, firstRef, lastRef, cur,
          isInitialized, refDeps, effDeps, effDestroy, stableBuilder,
          stableCleanup, nBuilt, log, lastRead, doneArgs, writes,
          callerWrote, renderChanged, storedAtCleanup, committedArgs,
          cleanupAtBuild, depsHist, memoDeps>>

NoRead == [st |-> "none", val |-> Undefined, msg |-> ""]
Returned(v) == [st |-> "ok", val |-> v, msg |-> ""]
Thrown(m) == [st |-> "throw", val |-> Undefined, msg |-> m]

RenderPhaseMsg == "Stable ref is not available during render phase."
DisposedMsg == "Stable was disposed and is no longer available."

NoDestroy == [has |-> FALSE, val |-> Undefined]
Destroy(v) == [has |-> TRUE, val |-> v]

\* one logged event: op in {"commit", "build", "throw", "install", "cleanup"},
\* fn the closure invoked, val its result / argument (the dependency list
\* for a commit), at the cycle (render number) it belongs to, by the step
\* that made it ("render", "commit" or "unmount")
Event(op, fn, val, at, by) ==
  [op |-> op, fn |-> fn, val |-> val, at |-> at, by |-> by]

NoArgs == <<Undefined, Undefined, Undefined>>

Init ==
  /\ shape \in Shapes
  /\ phase = "init"
  /\ renders = 0
  /\ args = NoArgs
  /\ mode = "none"
  /\ cellId = 0
  /\ firstRef = 0
  /\ lastRef = 0
  /\ cur = Undefined
  /\ isInitialized = FALSE
  /\ refDeps = Undefined
  /\ effDeps = Undefined
  /\ effDestroy = NoDestroy
  /\ stableBuilder = Undefined
  /\ stableCleanup = Undefined
  /\ nBuilt = 0
  /\ log = <<>>
  /\ lastRead = NoRead
  /\ doneArgs = NoArgs
  /\ writes = 0
  /\ callerWrote = FALSE
  /\ renderChanged = FALSE
  /\ storedAtCleanup = Undefined
  /\ committedArgs = NoArgs
  /\ cleanupAtBuild = Undefined
  /\ depsHist = <<>>
  /\ memoDeps = Undefined

(* ------------------------- host hook primitives ------------------------ *)
\* useRef(value): the hook slot keeps one ref object for the call site
useRef == IF cellId = 0 THEN cellId + 1 ELSE cellId

\* mutant: the object is created anew in every render (no memoization)
useMemo_unmemoized == cellId + 1

\* useMemo(factory, []): the factory runs only when the slot is empty, so
\* the memoized object is the same one in every later render
useMemo == IF cellId = 0 THEN cellId + 1 ELSE cellId

(* ----------------------------- reading --------------------------------- *)
\* mutant: the getter without the isInitialized guard
WrapperGet_unguarded ==
  IF cur = unique_symbol THEN Thrown(DisposedMsg) ELSE Returned(cur)

\* the getter of wrapper.current (useDisposableStableRef)
WrapperGet ==
  IF ~isInitialized THEN Thrown(RenderPhaseMsg)
  ELSE IF cur = unique_symbol THEN Thrown(DisposedMsg)
  ELSE Returned(cur)

\* what a read of ref.current yields in the current state
Get == IF mode = "deferred" THEN WrapperGet ELSE Returned(cur)

(* ------------------------ the three implementations -------------------- *)
\* mutant: the value is only used as the initial value of useRef
SimpleCurrent_initialOnly(value) == IF cellId = 0 THEN value ELSE cur

\* function useSimpleRef(value): the value ref.current has when it returns
SimpleCurrent(value) == value

\* function useSimpleRef(value)
useSimpleRef(value) ==
  LET ref == useRef IN
  /\ cellId' = ref
  /\ cur' = SimpleCurrent(value)
  /\ callerWrote' = FALSE
  /\ lastRef' = ref
  /\ firstRef' = IF firstRef = 0 THEN ref ELSE firstRef
  /\ phase' = "rendered"
  /\ UNCHANGED <<isInitialized, refDeps, nBuilt, log>>

\* mutant: the dependency comparison is left out of shouldBuild
ShouldBuild_firstRunOnly(builder, current, deps, dependencies) ==
  isFunction(builder) /\ current = unique_symbol

\* shouldBuild of useNonDisposableStableRef, for the ref's current value and
\* stored dependencies
ShouldBuild(builder, current, deps, dependencies) ==
  LET isFirstRun == current = unique_symbol IN
  /\ isFunction(builder)
  /\ (isFirstRun \/ ~shallowCompare(deps, dependencies))

\* mutant: ref.dependencies is recorded once, by the first call
NextDependencies_keepFirst(deps, dependencies) ==
  IF deps = Undefined THEN dependencies ELSE deps

\* ref.dependencies after a call of useNonDisposableStableRef that returned
NextDependencies(deps, dependencies) == dependencies

\* mutant: ref.dependencies is assigned before the builder is called
DependenciesOnThrow_recorded(deps, dependencies) == dependencies

\* ref.dependencies after a call that builder() left by throwing: the
\* assignment after the build is not reached
DependenciesOnThrow(deps, dependencies) == deps

\* function useNonDisposableStableRef(builder, dependencies)
useNonDisposableStableRef(builder, dependencies) ==
  LET ref == useMemo
      fresh == ref # cellId
      current == IF fresh THEN unique_symbol ELSE cur
      deps == IF fresh THEN Undefined ELSE refDeps
  IN
  /\ cellId' = ref
  /\ UNCHANGED isInitialized
  /\ IF ShouldBuild(builder, current, deps, dependencies)
     THEN \E ok \in BOOLEAN :
            IF ok
            THEN /\ cur' = Obj(nBuilt + 1)
                 /\ callerWrote' = FALSE
                 /\ nBuilt' = nBuilt + 1
                 /\ log' = log \o
                      << Event("build", builder, Obj(nBuilt + 1),
                               renders + 1, "render"),
                         Event("install", builder, Obj(nBuilt + 1),
                               renders + 1, "render") >>
                 /\ refDeps' = NextDependencies(deps, dependencies)
                 /\ lastRef' = ref
                 /\ firstRef' = IF firstRef = 0 THEN ref ELSE firstRef
                 /\ phase' = "rendered"
            ELSE \* builder() threw: the call is left at line 106
                 /\ cur' = current
                 /\ refDeps' = DependenciesOnThrow(deps, dependencies)
                 /\ log' = Append(log, Event("throw", builder, Undefined,
                                             renders + 1, "render"))
                 /\ phase' = "threw"
                 /\ UNCHANGED <<nBuilt, lastRef, firstRef, callerWrote>>
     ELSE /\ cur' = current
          /\ refDeps' = NextDependencies(deps, dependencies)
          /\ lastRef' = ref
          /\ firstRef' = IF firstRef = 0 THEN ref ELSE firstRef
          /\ phase' = "rendered"
          /\ UNCHANGED <<nBuilt, log, callerWrote>>

\* mutant: `current` is initialised outside the memoized factory, in every
\* render
WrapperCurrent_reset(fresh) == unique_symbol

\* the closure variable `current` after useMemo: unique_symbol in the render
\* that runs the factory, untouched in every other render
WrapperCurrent(fresh) == IF fresh THEN unique_symbol ELSE cur

\* function useDisposableStableRef({builder, cleanup, dependencies}): the
\* render only obtains the wrapper; useEffectEvent and useEffect take effect
\* when the render is committed
useDisposableStableRef(builder, cleanup, dependencies) ==
  LET ref == useMemo
      fresh == ref # cellId
  IN
  /\ cellId' = ref
  /\ cur' = WrapperCurrent(fresh)
  /\ isInitialized' = IF fresh THEN FALSE ELSE isInitialized
  /\ lastRef' = ref
  /\ firstRef' = IF firstRef = 0 THEN ref ELSE firstRef
  /\ phase' = "rendered"
  /\ UNCHANGED <<refDeps, nBuilt, log, callerWrote>>

\* mutant: the cleanup argument is looked at before the dependencies
ModeOf_cleanupFirst(param1, param2, param3) ==
  LET dependencies == IF isFunction(param2) THEN param3 ELSE param2 IN
  IF isFunction(param2) THEN "deferred"
  ELSE IF isNil(dependencies) THEN "simple"
  ELSE "eager"

\* the mode useStableRef dispatches to for an argument triple
ModeOf(param1, param2, param3) ==
  LET dependencies == IF isFunction(param2) THEN param3 ELSE param2
      isSimpleRef == isNil(dependencies)
      cleanup == IF isFunction(param2) THEN param2 ELSE Undefined
      isDisposableRef == ~isNil(cleanup)
  IN IF isSimpleRef THEN "simple"
     ELSE IF ~isDisposableRef THEN "eager"
     ELSE "deferred"

(* ------------------------------- actions ------------------------------- *)
\* one render of the component: the call useStableRef(param1, param2, param3)
Render(param1, param2, param3) ==
  LET dependencies == IF isFunction(param2) THEN param3 ELSE param2
      cleanup == IF isFunction(param2) THEN param2 ELSE Undefined
      m == ModeOf(param1, param2, param3)
  IN
  /\ phase \in {"init", "rendered", "committed", "threw"}
  /\ renders < MaxRenders
  /\ <<param1, param2, param3>> \in ArgsOf(shape)
  /\ renders' = renders + 1
  /\ args' = <<param1, param2, param3>>
  /\ mode' = m
  /\ lastRead' = NoRead
  /\ UNCHANGED <<shape, effDeps, effDestroy, stableBuilder, stableCleanup,
                 writes, storedAtCleanup, committedArgs, cleanupAtBuild,
                 memoDeps>>
  /\ CASE m = "simple" -> useSimpleRef(param1)
       [] m = "eager" -> useNonDisposableStableRef(param1, dependencies)
       [] m = "deferred" ->
            useDisposableStableRef(param1, cleanup, dependencies)
  /\ doneArgs' = IF phase' = "threw" THEN doneArgs ELSE args'
  /\ renderChanged' = (lastRef # 0 /\ <<cur', refDeps'>> # <<cur, refDeps>>)
  /\ depsHist' = IF m = "eager" /\ phase' # "threw"
                 THEN Append(depsHist, dependencies) ELSE depsHist

\* mutant: the effect's dependency array is [ref] only
EffectInputs_refOnly == Arr(<<cellId>>)

\* the dependency array [ref, ...dependencies] of the effect of the latest
\* render
EffectInputs == Arr(<<cellId>> \o args[3].d)

\* mutant: the event keeps dispatching to the closure it was created with
useEffectEvent_first(fn, prev) == IF prev = Undefined THEN fn ELSE prev

\* useEffectEvent(fn): once the render is committed the stable function
\* dispatches to the closure that render passed, whatever it dispatched to
\* before
useEffectEvent(fn, prev) == fn

\* the host commits the latest render: the effect events are pointed at the
\* committed closures and the effect is scheduled when its inputs changed
CommitStart ==
  /\ phase = "rendered"
  /\ UNCHANGED renderChanged
  /\ UNCHANGED storedAtCleanup
  /\ committedArgs' = args
  /\ UNCHANGED cleanupAtBuild
  /\ UNCHANGED depsHist
  /\ UNCHANGED memoDeps
  /\ lastRead' = NoRead
  /\ IF mode = "deferred"
     THEN /\ stableBuilder' = useEffectEvent(args[1], stableBuilder)
          /\ stableCleanup' = useEffectEvent(args[2], stableCleanup)
          /\ log' = Append(log, Event("commit", Undefined, args[3],
                                      renders, "commit"))
          /\ IF areHookInputsEqual(EffectInputs, effDeps)
             THEN /\ phase' = "committed"
                  /\ UNCHANGED effDeps
             ELSE /\ effDeps' = EffectInputs
                  /\ phase' = IF effDestroy.has THEN "destroying"
                              ELSE "creating"
     ELSE /\ phase' = "committed"
          /\ UNCHANGED <<stableBuilder, stableCleanup, effDeps, log>>
  /\ UNCHANGED <<shape, renders, args, mode, cellId, firstRef, lastRef, cur,
                 isInitialized, refDeps, effDestroy, nBuilt, doneArgs,
                 writes, callerWrote>>

\* mutant: cleanup is passed what ref.current holds instead of the captured
\* value
CleanupArgument_fromRef == cur

\* the argument of stableCleanup?.(current): the `current` the closure
\* returned by the effect captured
CleanupArgument == effDestroy.val

\* mutant: the returned function leaves ref.current as it is
ClearedValue_kept == cur

\* what the returned function stores in ref.current after the cleanup call
ClearedValue == Null

\* the function the effect returned: stableCleanup?.(current);
\* ref.current = null
EffectDestroy ==
  /\ phase \in {"destroying", "unmounting"}
  /\ log' = Append(log, Event("cleanup", stableCleanup, CleanupArgument,
                              renders,
                              IF phase = "destroying" THEN "commit"
                              ELSE "unmount"))
  /\ cur' = ClearedValue
  /\ callerWrote' = FALSE
  /\ effDestroy' = NoDestroy
  /\ phase' = IF phase = "destroying" THEN "creating" ELSE "unmounted"
  /\ UNCHANGED renderChanged
  /\ storedAtCleanup' = cur
  /\ UNCHANGED committedArgs
  /\ UNCHANGED cleanupAtBuild
  /\ UNCHANGED depsHist
  /\ UNCHANGED memoDeps
  /\ lastRead' = NoRead
  /\ UNCHANGED <<shape, renders, args, mode, cellId, firstRef, lastRef,
                 isInitialized, refDeps, effDeps, stableBuilder,
                 stableCleanup, nBuilt, doneArgs, writes>>

\* mutant: the effect body returns no destroy function
EffectReturn_none(current) == NoDestroy

\* mutant: the returned function captures what ref.current held before the
\* built value is installed
EffectReturn_stale(current) == Destroy(cur)

\* the function the effect body returns for a built value `current`
EffectReturn(current) == Destroy(current)

\* mutant: the effect body does not set ref.isInitialized
InitializedAfterInstall_unset == isInitialized

\* ref.isInitialized after the effect body has installed a value
InitializedAfterInstall == TRUE

\* the effect body: current = stableBuilder(); ref.current = current;
\* ref.isInitialized = true; the returned function is kept as its destroy
EffectCreate ==
  /\ phase = "creating"
  /\ UNCHANGED renderChanged
  /\ UNCHANGED storedAtCleanup
  /\ UNCHANGED committedArgs
  /\ UNCHANGED depsHist
  /\ UNCHANGED memoDeps
  /\ lastRead' = NoRead
  /\ \E ok \in BOOLEAN :
       IF ok
       THEN /\ log' = log \o
                 << Event("build", stableBuilder, Obj(nBuilt + 1),
                          renders, "commit"),
                    Event("install", stableBuilder, Obj(nBuilt + 1),
                          renders, "commit") >>
            /\ nBuilt' = nBuilt + 1
            /\ cur' = Obj(nBuilt + 1)
            /\ callerWrote' = FALSE
            /\ isInitialized' = InitializedAfterInstall
            /\ effDestroy' = EffectReturn(Obj(nBuilt + 1))
            /\ cleanupAtBuild' = committedArgs[2]
            /\ phase' = "committed"
       ELSE \* stableBuilder() threw: nothing is installed or returned
            /\ log' = Append(log, Event("throw", stableBuilder, Undefined,
                                        renders, "commit"))
            /\ phase' = "failed"
            /\ UNCHANGED <<nBuilt, cur, isInitialized, effDestroy,
                           callerWrote, cleanupAtBuild>>
  /\ UNCHANGED <<shape, renders, args, mode, cellId, firstRef, lastRef,
                 refDeps, effDeps, stableBuilder, stableCleanup, doneArgs,
                 writes>>

\* the owning scope is removed: the mounted effect's destroy is run
Unmount ==
  /\ phase \in {"rendered", "committed", "threw", "failed"}
  /\ phase' = IF effDestroy.has THEN "unmounting" ELSE "unmounted"
  /\ UNCHANGED renderChanged
  /\ UNCHANGED storedAtCleanup
  /\ UNCHANGED committedArgs
  /\ UNCHANGED cleanupAtBuild
  /\ UNCHANGED depsHist
  /\ UNCHANGED memoDeps
  /\ lastRead' = NoRead
  /\ UNCHANGED <<shape, renders, args, mode, cellId, firstRef, lastRef, cur,
                 isInitialized, refDeps, effDeps, effDestroy, stableBuilder,
                 stableCleanup, nBuilt, log, doneArgs, writes, callerWrote>>

\* the caller reads ref.current
Read ==
  /\ lastRef # 0
  /\ UNCHANGED renderChanged
  /\ UNCHANGED storedAtCleanup
  /\ UNCHANGED committedArgs
  /\ UNCHANGED cleanupAtBuild
  /\ UNCHANGED depsHist
  /\ UNCHANGED memoDeps
  /\ lastRead' = Get
  /\ UNCHANGED <<shape, phase, renders, args, mode, cellId, firstRef,
                 lastRef, cur, isInitialized, refDeps, effDeps, effDestroy,
                 stableBuilder, stableCleanup, nBuilt, log, doneArgs,
                 writes, callerWrote>>

\* the caller assigns ref.current = value (the setter of the wrapper, or the
\* plain property of the other two refs)
Write(value) ==
  /\ lastRef # 0
  /\ writes < MaxWrites
  /\ cur' = value
  /\ writes' = writes + 1
  /\ callerWrote' = TRUE
  /\ UNCHANGED renderChanged
  /\ UNCHANGED storedAtCleanup
  /\ UNCHANGED committedArgs
  /\ UNCHANGED cleanupAtBuild
  /\ UNCHANGED depsHist
  /\ UNCHANGED memoDeps
  /\ lastRead' = NoRead
  /\ UNCHANGED <<shape, phase, renders, args, mode, cellId, firstRef,
                 lastRef, isInitialized, refDeps, effDeps, effDestroy,
                 stableBuilder, stableCleanup, nBuilt, log, doneArgs>>

Next ==
  \/ \E p1 \in SuppliedValues \cup Closures,
        p2 \in DepLists \cup Closures \cup {Undefined, Null},
        p3 \in DepLists \cup {Undefined, Null} : Render(p1, p2, p3)
  \/ CommitStart
  \/ EffectDestroy
  \/ EffectCreate
  \/ Unmount
  \/ Read
  \/ \E v \in AssignedValues : Write(v)

Spec == Init /\ [][Next]_vars

(* ============ the single-function implementation, useStableRef.ts ====== *)
\* the function the cleanup event dispatches to when param2 is not a
\* function: () => {}
Noop == Fn(0)

\* the getter of wrapper.current of useStableRef.ts
SingleGet ==
  IF ~isInitialized THEN Thrown(RenderPhaseMsg) ELSE Returned(cur)

\* one render: the call useStableRef(param1, param2, param3) of
\* useStableRef.ts; with a dependency list it only obtains the wrapper, the
\* builder is left to the effect
useStableRef(param1, param2, param3) ==
  LET dependencies == IF isFunction(param2) THEN param3 ELSE param2
      isSimpleRef == isNil(dependencies)
      ref == useMemo
      fresh == ref # cellId
  IN
  /\ phase \in {"init", "rendered", "committed"}
  /\ renders < MaxRenders
  /\ <<param1, param2, param3>> \in ArgsOf(shape)
  /\ renders' = renders + 1
  /\ args' = <<param1, param2, param3>>
  /\ doneArgs' = <<param1, param2, param3>>
  /\ mode' = IF isSimpleRef THEN "simple" ELSE "effect"
  /\ cellId' = ref
  /\ lastRef' = ref
  /\ firstRef' = IF firstRef = 0 THEN ref ELSE firstRef
  /\ IF isSimpleRef
     THEN /\ cur' = param1
          /\ isInitialized' = TRUE
          /\ callerWrote' = FALSE
     ELSE /\ cur' = IF fresh THEN Undefined ELSE cur
          /\ isInitialized' = IF fresh THEN FALSE ELSE isInitialized
          /\ UNCHANGED callerWrote
  /\ phase' = "rendered"
  /\ lastRead' = NoRead
  /\ UNCHANGED <<shape, refDeps, effDeps, effDestroy, stableBuilder,
                 stableCleanup, nBuilt, log, writes, renderChanged,
                 storedAtCleanup, committedArgs, cleanupAtBuild, depsHist,
                 memoDeps>>

\* the dependency array [ref, ...dependencies] of the effect of the latest
\* render of useStableRef.ts
SingleEffectInputs ==
  LET dependencies == IF isFunction(args[2]) THEN args[3] ELSE args[2]
  IN Arr(<<cellId>> \o dependencies.d)

\* the host commits the latest render of useStableRef.ts
SingleCommitStart ==
  /\ phase = "rendered"
  /\ committedArgs' = args
  /\ lastRead' = NoRead
  /\ IF mode = "effect"
     THEN /\ stableBuilder' = useEffectEvent(args[1], stableBuilder)
          /\ stableCleanup' =
               useEffectEvent(IF isFunction(args[2]) THEN args[2] ELSE Noop,
                              stableCleanup)
          /\ log' = Append(log, Event("commit", Undefined,
                                      SingleEffectInputs, renders, "commit"))
          /\ IF areHookInputsEqual(SingleEffectInputs, effDeps)
             THEN /\ phase' = "committed"
                  /\ UNCHANGED effDeps
             ELSE /\ effDeps' = SingleEffectInputs
                  /\ phase' = IF effDestroy.has THEN "destroying"
                              ELSE "creating"
     ELSE /\ phase' = "committed"
          /\ UNCHANGED <<stableBuilder, stableCleanup, effDeps, log>>
  /\ UNCHANGED <<shape, renders, args, mode, cellId, firstRef, lastRef, cur,
                 isInitialized, refDeps, effDestroy, nBuilt, doneArgs,
                 writes, callerWrote, renderChanged, storedAtCleanup,
                 cleanupAtBuild, depsHist, memoDeps>>

\* the function the effect of useStableRef.ts returned: cleanup?.(current)
SingleEffectDestroy ==
  /\ phase \in {"destroying", "unmounting"}
  /\ log' = Append(log, Event("cleanup", stableCleanup, effDestroy.val,
                              renders,
                              IF phase = "destroying" THEN "commit"
                              ELSE "unmount"))
  /\ storedAtCleanup' = cur
  /\ effDestroy' = NoDestroy
  /\ phase' = IF phase = "destroying" THEN "creating" ELSE "unmounted"
  /\ lastRead' = NoRead
  /\ UNCHANGED <<shape, renders, args, mode, cellId, firstRef, lastRef, cur,
                 isInitialized, refDeps, effDeps, stableBuilder,
                 stableCleanup, nBuilt, doneArgs, writes, callerWrote,
                 renderChanged, committedArgs, cleanupAtBuild, depsHist,
                 memoDeps>>

\* the effect body of useStableRef.ts: current = computeState();
\* ref.current = current; ref.isInitialized = true; calling a param1 that is
\* not a function throws a TypeError
SingleEffectCreate ==
  /\ phase = "creating"
  /\ lastRead' = NoRead
  /\ \E ok \in {b \in BOOLEAN : b => isFunction(stableBuilder)} :
       IF ok
       THEN /\ log' = log \o
                 << Event("build", stableBuilder, Obj(nBuilt + 1),
                          renders, "commit"),
                    Event("install", stableBuilder, Obj(nBuilt + 1),
                          renders, "commit") >>
            /\ nBuilt' = nBuilt + 1
            /\ cur' = Obj(nBuilt + 1)
            /\ callerWrote' = FALSE
            /\ isInitialized' = TRUE
            /\ effDestroy' = Destroy(Obj(nBuilt + 1))
            /\ cleanupAtBuild' = committedArgs[2]
            /\ phase' = "committed"
       ELSE /\ log' = Append(log, Event("throw", stableBuilder, Undefined,
                                        renders, "commit"))
            /\ phase' = "failed"
            /\ UNCHANGED <<nBuilt, cur, isInitialized, effDestroy,
                           callerWrote, cleanupAtBuild>>
  /\ UNCHANGED <<shape, renders, args, mode, cellId, firstRef, lastRef,
                 refDeps, effDeps, stableBuilder, stableCleanup, doneArgs,
                 writes, renderChanged, storedAtCleanup, committedArgs,
                 depsHist, memoDeps>>

\* the caller reads ref.current of the wrapper of useStableRef.ts
SingleRead ==
  /\ lastRef # 0
  /\ lastRead' = SingleGet
  /\ UNCHANGED <<shape, phase, renders, args, mode, cellId, firstRef,
                 lastRef, cur, isInitialized, refDeps, effDeps, effDestroy,
                 stableBuilder, stableCleanup, nBuilt, log, doneArgs,
                 writes, callerWrote, renderChanged, storedAtCleanup,
                 committedArgs, cleanupAtBuild, depsHist, memoDeps>>

NextSingle ==
  \/ \E p1 \in SuppliedValues \cup Closures,
        p2 \in DepLists \cup Closures \cup {Undefined, Null},
        p3 \in DepLists \cup {Undefined, Null} : useStableRef(p1, p2, p3)
  \/ SingleCommitStart
  \/ SingleEffectDestroy
  \/ SingleEffectCreate
  \/ Unmount
  \/ SingleRead
  \/ \E v \in AssignedValues : Write(v)

SpecSingle == Init /\ [][NextSingle]_vars

(* ===== the useSyncExternalStore implementation, second of part_000 ===== *)
\* value, builder and cleanup as the call derives them from its arguments
\* and stores them in props.current
PropsOf(a) ==
  LET dependencies == IF isFunction(a[2]) THEN a[3] ELSE a[2] IN
  [value |-> IF ~isNil(dependencies) THEN Undefined ELSE a[1],
   builder |-> IF ~isNil(dependencies) THEN a[1] ELSE Undefined,
   cleanup |-> IF isFunction(a[2]) THEN a[2] ELSE Undefined]

\* useMemo(factory, dependencies): the factory runs in the first render,
\* in every render when dependencies is absent, and when an element of
\* dependencies differs from the memoized array
MemoRecomputes(dependencies) ==
  \/ cellId = 0
  \/ isNil(dependencies)
  \/ ~areHookInputsEqual(dependencies, memoDeps)

\* shouldBuild of getSnapshot, for stableRef.current and the dependencies
\* the closure captured
SnapshotShouldBuild(props, current, dependencies) ==
  LET isFirstRender == current = unique_symbol IN
  /\ isFunction(props.builder)
  /\ (isFirstRender \/ ~shallowCompare(refDeps, dependencies))

\* getSnapshot does not return: builder() threw
SnapshotThrows(props, current, dependencies, ok) ==
  /\ ~isNil(dependencies)
  /\ SnapshotShouldBuild(props, current, dependencies)
  /\ ~ok

\* const getSnapshot = () => ...: called for the cell `current` belongs to,
\* by a closure that captured `dependencies`; ok is whether builder()
\* returns
getSnapshot(props, current, dependencies, ok, at, by) ==
  IF isNil(dependencies)
  THEN /\ cur' = props.value
       /\ callerWrote' = FALSE
       /\ UNCHANGED <<nBuilt, log>>
  ELSE LET isFirstRender == current = unique_symbol
           shouldBuild == SnapshotShouldBuild(props, current, dependencies)
           cleaned ==
             IF ~isFirstRender /\ shouldBuild /\ ~isNil(props.cleanup)
             THEN << Event("cleanup", props.cleanup, current, at, by) >>
             ELSE << >>
       IN IF ~shouldBuild
          THEN /\ cur' = current
               /\ UNCHANGED <<nBuilt, log, callerWrote>>
          ELSE IF ok
          THEN /\ cur' = Obj(nBuilt + 1)
               /\ callerWrote' = FALSE
               /\ nBuilt' = nBuilt + 1
               /\ log' = log \o cleaned \o
                    << Event("build", props.builder, Obj(nBuilt + 1), at, by),
                       Event("install", props.builder, Obj(nBuilt + 1), at,
                             by) >>
          ELSE /\ cur' = current
               /\ log' = log \o cleaned \o
                    << Event("throw", props.builder, Undefined, at, by) >>
               /\ UNCHANGED <<nBuilt, callerWrote>>

\* one render: the call useStableRef(param1, param2, param3) of the second
\* implementation of part_000; the ref it returns is the object getSnapshot
\* returned to useSyncExternalStore
useStableRefSync(param1, param2, param3) ==
  LET dependencies == IF isFunction(param2) THEN param3 ELSE param2
      props == PropsOf(<<param1, param2, param3>>)
      fresh == MemoRecomputes(dependencies)
      stableRef == IF fresh THEN cellId + 1 ELSE cellId
      current == IF fresh THEN unique_symbol ELSE cur
      captured == IF fresh THEN dependencies ELSE memoDeps
  IN
  /\ phase \in {"init", "rendered", "committed", "threw"}
  /\ renders < MaxRenders
  /\ <<param1, param2, param3>> \in ArgsOf(shape)
  /\ renders' = renders + 1
  /\ args' = <<param1, param2, param3>>
  /\ mode' = IF isNil(dependencies) THEN "simple" ELSE "sync"
  /\ cellId' = stableRef
  /\ memoDeps' = captured
  /\ lastRead' = NoRead
  /\ \E ok \in BOOLEAN :
       /\ getSnapshot(props, current, captured, ok, renders + 1, "render")
       /\ IF SnapshotThrows(props, current, captured, ok)
          THEN /\ phase' = "threw"
               /\ UNCHANGED <<refDeps, lastRef, firstRef, doneArgs>>
          ELSE /\ phase' = "rendered"
               /\ refDeps' = dependencies
               /\ lastRef' = stableRef
               /\ firstRef' = IF firstRef = 0 THEN stableRef ELSE firstRef
               /\ doneArgs' = <<param1, param2, param3>>
  /\ UNCHANGED <<shape, isInitialized, effDeps, effDestroy, stableBuilder,
                 stableCleanup, writes, renderChanged, storedAtCleanup,
                 committedArgs, cleanupAtBuild, depsHist>>

\* the host commits the latest render: useSyncExternalStore reads the
\* snapshot once more to see whether the store changed during the render
SyncCommit ==
  /\ phase = "rendered"
  /\ committedArgs' = args
  /\ lastRead' = NoRead
  /\ \E ok \in BOOLEAN :
       /\ getSnapshot(PropsOf(args), cur, memoDeps, ok, renders, "commit")
       /\ phase' = IF SnapshotThrows(PropsOf(args), cur, memoDeps, ok)
                   THEN "failed" ELSE "committed"
  /\ UNCHANGED <<shape, renders, args, mode, cellId, firstRef, lastRef,
                 isInitialized, refDeps, effDeps, effDestroy, stableBuilder,
                 stableCleanup, doneArgs, writes, renderChanged,
                 storedAtCleanup, cleanupAtBuild, depsHist, memoDeps>>

\* the caller reads ref.current of the plain object the latest call
\* returned; the cell of a call that threw was never handed out
SyncRead ==
  /\ lastRef # 0 /\ lastRef = cellId
  /\ lastRead' = Returned(cur)
  /\ UNCHANGED <<shape, phase, renders, args, mode, cellId, firstRef,
                 lastRef, cur, isInitialized, refDeps, effDeps, effDestroy,
                 stableBuilder, stableCleanup, nBuilt, log, doneArgs,
                 writes, callerWrote, renderChanged, storedAtCleanup,
                 committedArgs, cleanupAtBuild, depsHist, memoDeps>>

\* the caller assigns ref.current of the object the latest call returned
SyncWrite(value) ==
  /\ lastRef # 0 /\ lastRef = cellId
  /\ writes < MaxWrites
  /\ cur' = value
  /\ writes' = writes + 1
  /\ callerWrote' = TRUE
  /\ lastRead' = NoRead
  /\ UNCHANGED <<shape, phase, renders, args, mode, cellId, firstRef,
                 lastRef, isInitialized, refDeps, effDeps, effDestroy,
                 stableBuilder, stableCleanup, nBuilt, log, doneArgs,
                 renderChanged, storedAtCleanup, committedArgs,
                 cleanupAtBuild, depsHist, memoDeps>>

NextSync ==
  \/ \E p1 \in SuppliedValues \cup Closures,
        p2 \in DepLists \cup Closures \cup {Undefined, Null},
        p3 \in DepLists \cup {Undefined, Null} :
          useStableRefSync(p1, p2, p3)
  \/ SyncCommit
  \/ Unmount
  \/ SyncRead
  \/ \E v \in AssignedValues : SyncWrite(v)

SpecSync == Init /\ [][NextSync]_vars

(* ======================= properties of the history ===================== *)
Max(S) == CHOOSE x \in S : \A y \in S : y <= x
Min(S) == CHOOSE x \in S : \A y \in S : x <= y

IsBuilderCall(e) == e.op \in {"build", "throw"}
IsCleanup(e) == e.op = "cleanup"
IsInvocation(e) == IsBuilderCall(e) \/ IsCleanup(e)
IsUnmountCleanup(e) == e.op = "cleanup" /\ e.by = "unmount"

\* builder and cleanup invocations, in the order they were made
Invocations == SelectSeq(log, IsInvocation)
NumBuilderCalls == Len(SelectSeq(log, IsBuilderCall))
NumCleanups == Len(SelectSeq(log, IsCleanup))

\* positions of the commits in the history
CommitIdx == {i \in 1..Len(log) : log[i].op = "commit"}
PrevCommit(i) ==
  IF \E j \in CommitIdx : j < i THEN Max({j \in CommitIdx : j < i}) ELSE 0
NextCommit(i) ==
  IF \E j \in CommitIdx : j > i THEN Min({j \in CommitIdx : j > i})
  ELSE Len(log) + 1
\* the steps of commit i have all been taken
Complete(i) == NextCommit(i) <= Len(log) \/ phase \notin {"destroying", "creating"}
\* commit i is not the first and its dependency list differs from the one
\* committed before it
Changed(i) == PrevCommit(i) # 0 /\ log[i].val # log[PrevCommit(i)].val
\* the value of the latest successful build before position i
BuildsBefore(i) == {j \in 1..(i - 1) : log[j].op = "build"}
LastBuiltBefore(i) == log[Max(BuildsBefore(i))].val
\* the events commit i made
EventsOf(i) == (i + 1)..(NextCommit(i) - 1)

(* ------------------------------------------------------------------------ *)
\* C1: in all three modes every call at the call site returns the ref object
\* the first call returned, whatever value or dependency list is supplied.
C1_SameCell == firstRef # 0 => (lastRef = firstRef /\ cellId = firstRef)

C1_Witness ==
  /\ renders >= 2 /\ firstRef # 0 /\ lastRef = firstRef
  /\ nBuilt >= 2

\* C2: in deferred mode builder and cleanup invocations alternate, starting
\* with a builder call; every cleanup is passed the value the builder call
\* before it returned; no value is passed to cleanup twice; the number of
\* cleanup calls is the number of builder calls or one less; and after
\* teardown every built value has had its cleanup.
C2_ExactlyOnceCleanup ==
  mode = "deferred" =>
    LET E == Invocations IN
    /\ \A i \in 1..Len(E) :
         IF i % 2 = 1 THEN IsBuilderCall(E[i])
         ELSE /\ IsCleanup(E[i])
              /\ E[i - 1].op = "build"
              /\ E[i].val = E[i - 1].val
    /\ \A i, j \in 1..Len(E) :
         (IsCleanup(E[i]) /\ IsCleanup(E[j]) /\ E[i].val = E[j].val) => i = j
    /\ NumCleanups \in {NumBuilderCalls, NumBuilderCalls - 1}
    /\ phase = "unmounted" =>
         \A i \in 1..Len(E) :
           E[i].op = "build" =>
             \E j \in 1..Len(E) : IsCleanup(E[j]) /\ E[j].val = E[i].val

C2_Witness ==
  /\ mode = "deferred" /\ phase = "unmounted"
  /\ nBuilt = 2 /\ NumCleanups = 2

\* C3: in deferred mode a commit whose dependency list differs from the
\* previously committed one makes exactly one cleanup call, with the
\* previously built value, directly followed by the builder call of that
\* commit, directly followed by the installation of the built value; the
\* events of the history are in cycle order.
C3_CleanupBeforeBuild ==
  mode = "deferred" =>
    /\ \A i \in CommitIdx :
         (Changed(i) /\ Complete(i)) =>
           /\ i + 2 <= Len(log)
           /\ log[i + 1].op = "cleanup" /\ log[i + 1].by = "commit"
           /\ log[i + 1].at = log[i].at
           /\ log[i + 1].val = LastBuiltBefore(i)
           /\ IsBuilderCall(log[i + 2]) /\ log[i + 2].by = "commit"
           /\ log[i + 2].at = log[i].at
           /\ log[i + 2].op = "build" =>
                /\ i + 3 <= Len(log)
                /\ log[i + 3].op = "install"
                /\ log[i + 3].val = log[i + 2].val
                /\ log[i + 3].val # log[i + 1].val
           /\ Cardinality({j \in EventsOf(i) :
                 log[j].op = "cleanup" /\ log[j].by = "commit"}) = 1
    /\ \A i, j \in 1..Len(log) : i < j => log[i].at <= log[j].at

C3_Witness ==
  /\ mode = "deferred" /\ phase = "committed"
  /\ \E i \in CommitIdx : Changed(i) /\ log[i + 2].op = "build"
  /\ writes >= 1

\* C4: in deferred mode teardown makes at most one cleanup call, with the
\* last built value; when a built value is installed at teardown it makes
\* exactly one; after teardown the last built value has had exactly one
\* cleanup, and from then on no builder runs, nothing is installed and the
\* effect is never mounted again.
LiveAtTeardown ==
  /\ nBuilt > 0
  /\ ~\E j \in 1..Len(log) :
        /\ log[j].by = "commit"
        /\ \/ log[j].op = "cleanup" /\ log[j].val = Obj(nBuilt)
           \/ log[j].op = "throw" /\ j > Max(BuildsBefore(Len(log) + 1))

C4_AfterTeardown ==
  (mode = "deferred" /\ phase = "unmounted") =>
    LET U == SelectSeq(log, IsUnmountCleanup) IN
    /\ Len(U) <= 1
    /\ \A k \in 1..Len(U) : U[k].val = Obj(nBuilt)
    /\ nBuilt > 0 =>
         Cardinality({j \in 1..Len(log) :
           log[j].op = "cleanup" /\ log[j].val = Obj(nBuilt)}) = 1
    /\ LiveAtTeardown => Len(U) = 1

C4_Terminal ==
  (mode = "deferred" /\ phase = "unmounted") =>
    /\ phase' = "unmounted"
    /\ log' = log
    /\ nBuilt' = nBuilt
    /\ effDestroy' = NoDestroy

\* C4: teardown cleans up the last built value exactly once (state part) and
\* is terminal (step part).
C4_Teardown == [](C4_AfterTeardown) /\ [][C4_Terminal]_vars

C4_Witness ==
  /\ mode = "deferred" /\ phase = "unmounted" /\ nBuilt = 2
  /\ Len(SelectSeq(log, IsUnmountCleanup)) = 1
  /\ log[Len(log)].val = Obj(2)
  /\ lastRead.st # "none"

\* C5: in deferred mode, as long as no built value has been installed (in
\* particular during the first render), a read of ref.current throws
\* "Stable ref is not available during render phase." and returns nothing.
NothingInstalled == \A i \in 1..Len(log) : log[i].op # "install"

C5_RenderPhaseRead ==
  (mode = "deferred" /\ NothingInstalled) =>
    /\ Get = Thrown(RenderPhaseMsg)
    /\ lastRead.st # "none" => lastRead = Thrown(RenderPhaseMsg)

C5_Witness ==
  /\ mode = "deferred" /\ renders = 1 /\ phase = "rendered"
  /\ lastRead = Thrown(RenderPhaseMsg)
  /\ callerWrote

\* C6: in deferred mode, once teardown has run the effect's destroy, the
\* stored value is the uninitialized sentinel and a read of ref.current
\* throws.
TornDown ==
  /\ mode = "deferred" /\ phase = "unmounted"
  /\ \E i \in 1..Len(log) : IsUnmountCleanup(log[i])

C6_DisposedRead ==
  TornDown =>
    /\ ~callerWrote => cur = unique_symbol
    /\ Get.st = "throw"
    /\ lastRead.st # "none" => lastRead.st = "throw"

\* C7 (as stated): in deferred mode, while a built value is mounted (a commit
\* has installed it and neither cleanup nor teardown has run since), a read
\* returns the result of the most recent builder invocation.
LastBuilt == LastBuiltBefore(Len(log) + 1)

C7_ReadReturnsBuilt ==
  (mode = "deferred" /\ effDestroy.has) => Get = Returned(LastBuilt)

\* C7 (amended): the same, provided the caller has not assigned ref.current
\* since that builder invocation; after such an assignment the read returns
\* the assigned value.  The most recent builder invocation is the one made
\* for the latest committed change of the dependency list.
C7_ReadReturnsBuiltUnlessAssigned ==
  (mode = "deferred" /\ effDestroy.has) =>
    LET b == Max(BuildsBefore(Len(log) + 1))
        c == PrevCommit(b)
    IN
    /\ Get.st = "ok"
    /\ lastRead.st # "none" => lastRead = Get
    /\ ~callerWrote => Get = Returned(LastBuilt)
    /\ callerWrote => Get.val \in AssignedValues
    /\ LastBuilt = Obj(nBuilt)
    /\ \A j \in (b + 1)..Len(log) : ~IsBuilderCall(log[j])
    /\ \A j \in CommitIdx :
         (j > c /\ Complete(j)) => log[j].val = log[c].val

C7_Witness ==
  /\ mode = "deferred" /\ effDestroy.has /\ nBuilt = 2
  /\ lastRead = Returned(Obj(2))

\* C8: in passthrough mode a render sets ref.current to the supplied value
\* whatever it held (also a value the caller assigned), so a read returns
\* the latest supplied value until the caller assigns another; no builder
\* or cleanup is ever invoked and a read never throws.
C8_Reads ==
  mode = "simple" =>
    /\ log = <<>> /\ nBuilt = 0
    /\ Get.st = "ok"
    /\ ~callerWrote => Get = Returned(args[1])
    /\ lastRead.st # "none" => lastRead.st = "ok"

C8_Overwrite ==
  (mode' = "simple" /\ renders' = renders + 1) => cur' = args'[1]

\* C8: passthrough reads (state part) and the unconditional overwrite by
\* every render (step part).
C8_Passthrough == [](C8_Reads) /\ [][C8_Overwrite]_vars

C8_Witness ==
  /\ mode = "simple" /\ renders >= 2 /\ writes >= 1 /\ ~callerWrote
  /\ args[1] = Fn(1)
  /\ lastRead = Returned(args[1])

\* C9: in eager mode with a builder, a call invokes the builder exactly once,
\* inside the render, if no earlier call has returned or the dependency list
\* differs from that of the latest call that returned, and not at all
\* otherwise, leaving ref.current as it was; the result of a builder call
\* that returns is installed as ref.current; no other step invokes it.
NewEvents == SubSeq(log', Len(log) + 1, Len(log'))

C9_EagerStep ==
  shape = "builder_deps" =>
    IF renders' = renders + 1
    THEN LET first == doneArgs = NoArgs
             changed == ~first /\ args'[2] # doneArgs[2]
             calls == Len(SelectSeq(NewEvents, IsBuilderCall))
         IN
         /\ calls = IF first \/ changed THEN 1 ELSE 0
         /\ \A i \in 1..Len(NewEvents) :
              NewEvents[i].by = "render" /\ NewEvents[i].at = renders'
         /\ calls = 0 => (cur' = cur /\ log' = log)
         /\ (calls = 1 /\ phase' = "rendered") =>
              /\ cur' = Obj(nBuilt') /\ nBuilt' = nBuilt + 1
              /\ NewEvents[1].op = "build" /\ NewEvents[1].val = cur'
              /\ NewEvents[1].fn = args'[1]
         /\ (calls = 1 /\ phase' = "threw" /\ cellId # 0) => cur' = cur
    ELSE log' = log

\* C9: every step of an eager call site invokes the builder as C9_EagerStep
\* says.
C9_EagerBuild == [][C9_EagerStep]_vars

C9_Witness ==
  /\ shape = "builder_deps" /\ renders = 3 /\ nBuilt = 2
  /\ NumBuilderCalls = 2 /\ phase = "rendered"

\* C10: in deferred mode a commit invokes the builder if and only if it is
\* the first commit or its dependency list differs from the previously
\* committed one; a commit with an unchanged list invokes neither builder
\* nor cleanup, installs nothing and leaves ref.current as it was.
Trigger(i) == PrevCommit(i) = 0 \/ Changed(i)

C10_BuildIff ==
  mode = "deferred" =>
    \A i \in CommitIdx :
      Complete(i) =>
        /\ Trigger(i) <=>
             \E j \in EventsOf(i) : IsBuilderCall(log[j]) /\ log[j].by = "commit"
        /\ ~Trigger(i) =>
             \A j \in EventsOf(i) : log[j].by = "unmount"

C10_UnchangedCommit ==
  ( /\ mode = "deferred" /\ phase = "rendered"
    /\ Len(log') = Len(log) + 1 /\ log'[Len(log')].op = "commit"
    /\ CommitIdx # {} /\ log[Max(CommitIdx)].val = args[3] ) =>
      /\ cur' = cur
      /\ phase' = "committed"
      /\ UNCHANGED <<effDestroy, isInitialized, nBuilt>>

\* C10: a commit builds iff it is the first or its list changed (state
\* part); an unchanged commit leaves the cell alone (step part).
C10_CommitBuildsIffChanged == [](C10_BuildIff) /\ [][C10_UnchangedCommit]_vars

C10_Witness ==
  /\ mode = "deferred" /\ phase = "committed" /\ renders = 3
  /\ Cardinality(CommitIdx) = 3 /\ nBuilt = 2
  /\ ~Trigger(Max(CommitIdx))

\* C11: in deferred mode a render invokes neither builder nor cleanup and
\* leaves the stored value, the initialization flag and the mounted effect
\* as they were (the first render creates the cell uninitialized); builder
\* and cleanup are invoked only by commit and unmount steps.
C11_ComputeStep ==
  (mode' = "deferred" /\ renders' = renders + 1) =>
    /\ log' = log /\ nBuilt' = nBuilt
    /\ effDestroy' = effDestroy
    /\ IF cellId = 0
       THEN cur' = unique_symbol /\ isInitialized' = FALSE
       ELSE cur' = cur /\ isInitialized' = isInitialized

C11_InvokedByCommitOrUnmount ==
  mode = "deferred" =>
    \A i \in 1..Len(log) :
      IsInvocation(log[i]) => log[i].by \in {"commit", "unmount"}

\* C11: the step part and the state part together.
C11_ComputeIsPure ==
  [](C11_InvokedByCommitOrUnmount) /\ [][C11_ComputeStep]_vars

C11_Witness ==
  /\ mode = "deferred" /\ phase = "rendered" /\ renders >= 2
  /\ nBuilt = 1 /\ cur = Obj(1) /\ isInitialized
  /\ args[3] # log[Max(CommitIdx)].val

\* a step in which the host renders again although the latest render was
\* not committed: that render is superseded
Supersedes == phase = "rendered" /\ renders' = renders + 1

\* C12 (as stated): in eager and in deferred mode a superseded render of an
\* existing cell left the stored value and previousDependencies as they
\* were before it.
C12_SupersededLeavesState ==
  [][(Supersedes /\ mode \in {"eager", "deferred"}) => ~renderChanged]_vars

\* C12 (amended): a superseded render left the stored state unchanged in
\* deferred mode; in eager mode a superseded render has recorded its own
\* dependency list as previousDependencies.
C12_SupersededStep ==
  Supersedes =>
    /\ mode = "deferred" => ~renderChanged
    /\ mode = "eager" => refDeps = args[2]

C12_SupersededDeferredOnly == [][C12_SupersededStep]_vars

C12_Witness ==
  /\ mode = "deferred" /\ phase = "rendered" /\ renders = 3
  /\ Len(log) = 0 /\ ~renderChanged /\ cur = unique_symbol

\* positions of the cleanup calls in the history
CleanupIdx == {i \in 1..Len(log) : IsCleanup(log[i])}

\* C13 (as stated): in deferred mode the argument of the latest cleanup call
\* is the value the cell held immediately before that call.
C13_ArgumentIsStored ==
  (mode = "deferred" /\ CleanupIdx # {}) =>
    log[Max(CleanupIdx)].val = storedAtCleanup

\* C13 (amended): in deferred mode the argument of every cleanup call is the
\* value the latest builder call before it returned; it differs from the
\* value the cell held just before the call only when the caller had
\* assigned the cell after that build.
C13_ArgumentIsBuilt ==
  mode = "deferred" =>
    /\ \A i \in CleanupIdx :
         BuildsBefore(i) # {} /\ log[i].val = LastBuiltBefore(i)
    /\ CleanupIdx # {} =>
         \/ storedAtCleanup = log[Max(CleanupIdx)].val
         \/ storedAtCleanup \in AssignedValues

C13_Witness ==
  /\ mode = "deferred" /\ CleanupIdx # {}
  /\ storedAtCleanup = Num(7)
  /\ log[Max(CleanupIdx)].val = Obj(1)
  /\ log[Max(CleanupIdx)].by = "commit"

\* the call supplies a dependency sequence / a cleanup function
HasDependencies(a) ==
  \/ a[2].k = "array"
  \/ a[2].k = "function" /\ a[3].k = "array"
HasCleanup(a) == a[2].k = "function"

\* C14: every call resolves one mode: passthrough exactly when no dependency
\* sequence is supplied (also when a cleanup function is passed without
\* one), eager when a dependency sequence is supplied without a cleanup
\* function, deferred when both are supplied; in passthrough mode nothing
\* is invoked and a callable first argument is itself the stored value.
C14_ModeResolution ==
  renders > 0 =>
    /\ mode \in {"simple", "eager", "deferred"}
    /\ mode = "simple" <=> ~HasDependencies(args)
    /\ mode = "eager" <=> (HasDependencies(args) /\ ~HasCleanup(args))
    /\ mode = "deferred" <=> (HasDependencies(args) /\ HasCleanup(args))
    /\ mode = "simple" =>
         /\ log = <<>> /\ nBuilt = 0
         /\ ~callerWrote => Get = Returned(args[1])

C14_Witness ==
  /\ shape = "value_cleanup" /\ mode = "simple"
  /\ args = <<Fn(1), Fn(1), Null>>
  /\ lastRead = Returned(Fn(1))

\* the events a step appends to the history
Appended == {i \in 1..Len(log') : i > Len(log)}

\* C15: in deferred mode every builder call made by a commit is a call of
\* the builder closure of the latest committed render, and every cleanup
\* call (dependency change or teardown) is a call of the cleanup closure of
\* the latest committed render; a commit whose dependency list is the
\* committed one schedules neither call, whatever closures it supplies.
C15_Step ==
  mode = "deferred" =>
    /\ \A i \in Appended :
         /\ IsBuilderCall(log'[i]) => log'[i].fn = committedArgs'[1]
         /\ IsCleanup(log'[i]) => log'[i].fn = committedArgs'[2]
    /\ ( /\ committedArgs' # committedArgs
         /\ committedArgs # NoArgs
         /\ committedArgs'[3] = committedArgs[3] ) =>
           /\ phase' = "committed"
           /\ \A i \in Appended : ~IsInvocation(log'[i])

C15_LatestClosures == [][C15_Step]_vars

C15_Witness ==
  /\ mode = "deferred" /\ CleanupIdx # {}
  /\ log[Len(log)].op = "cleanup"
  /\ log[Len(log)].fn = Fn(2) /\ cleanupAtBuild = Fn(1)
  /\ committedArgs[2] = Fn(2)

\* C16: in useStableRef.ts, for the call shape (builder, dependencies), a
\* read made when the first call has returned and nothing is committed yet
\* returns the value the builder returned.
C16_ReadableAfterFirstCall ==
  ( /\ shape = "builder_deps" /\ renders = 1 /\ phase = "rendered"
    /\ writes = 0 /\ lastRead # NoRead ) =>
      nBuilt = 1 /\ lastRead = Returned(Obj(1))

\* C17: in deferred mode, after a commit that cleaned up the old value and
\* whose builder call then failed, no read succeeds with null, undefined or
\* the sentinel.
C17_NoPlaceholderAfterFailedRebuild ==
  ( /\ mode = "deferred" /\ Len(log) >= 2
    /\ log[Len(log)].op = "throw" /\ log[Len(log) - 1].op = "cleanup"
    /\ lastRead.st = "ok" ) =>
      lastRead.val \notin {Null, Undefined, unique_symbol}

\* C18: in eager mode, once a call has returned the cell, no read returns
\* the sentinel, whether the first argument is callable or not.
C18_NeverSentinel ==
  (mode = "eager" /\ lastRef # 0 /\ lastRead.st = "ok") =>
    lastRead.val # unique_symbol

\* the cycles whose dependency list differs from the one of the cycle
\* before
ChangedCycles ==
  {i \in 2..Len(depsHist) : ~shallowCompare(depsHist[i - 1], depsHist[i])}

\* C19: in eager mode previousDependencies is the dependency list of the
\* latest call that returned, whether or not that call built, so a builder
\* is invoked successfully once for the first cycle and once for every
\* cycle whose list differs from the immediately preceding one: three
\* times for A, B, A and twice for A, A, B.
C19_ComparesWithPreceding ==
  (mode = "eager" /\ depsHist # <<>>) =>
    /\ refDeps = depsHist[Len(depsHist)]
    /\ isFunction(args[1]) => nBuilt = 1 + Cardinality(ChangedCycles)
    /\ ( /\ isFunction(args[1]) /\ Len(depsHist) = 3
         /\ depsHist[1] = depsHist[3] /\ depsHist[1] # depsHist[2] )
           => nBuilt = 3
    /\ ( /\ isFunction(args[1]) /\ Len(depsHist) = 3
         /\ depsHist[1] = depsHist[2] /\ depsHist[1] # depsHist[3] )
           => nBuilt = 2

C19_Witness ==
  /\ mode = "eager" /\ phase = "rendered"
  /\ depsHist = <<Arr(<<1, 2>>), Arr(<<2, 1>>), Arr(<<1, 2>>)>>
  /\ nBuilt = 3 /\ cur = Obj(3)

\* the values that have been passed to cleanup
CleanedValues == {log[i].val : i \in CleanupIdx}

C21_Step ==
  (mode' = "eager" /\ renders' = renders + 1) =>
    /\ phase' = "threw" =>
         /\ log'[Len(log')].op = "throw" /\ Len(log') = Len(log) + 1
         /\ lastRef' = lastRef /\ nBuilt' = nBuilt
         /\ doneArgs' = doneArgs
         /\ cellId # 0 => (cur' = cur /\ refDeps' = refDeps)
    /\ (phase = "threw" /\ isFunction(args'[1]) /\ args'[2] = args[2]) =>
         /\ Len(log') > Len(log)
         /\ IsBuilderCall(log'[Len(log) + 1])
         /\ log'[Len(log) + 1].by = "render"

C21_FailedBuildRetried == [][C21_Step]_vars

C21_Witness ==
  /\ mode = "eager" /\ phase = "rendered" /\ Len(log) = 5
  /\ log[3].op = "throw" /\ log[4].op = "build"
  /\ depsHist = <<Arr(<<1, 2>>), Arr(<<2, 1>>)>>
  /\ cur = Obj(2)

\* C22: in useStableRef.ts, for the call shape (builder, cleanup,
\* dependencies), a read made after the owning scope was torn down fails
\* and does not return the value that was passed to cleanup at teardown.
C22_ReadAfterTeardownFails ==
  ( /\ shape = "builder_cleanup_deps" /\ phase = "unmounted"
    /\ writes = 0 /\ lastRead # NoRead ) =>
      /\ lastRead.st = "throw"
      /\ lastRead.val \notin CleanedValues

\* C23: in the useSyncExternalStore implementation a change of the
\* dependency list does not create a new cell (every call returns the cell
\* of the first call), and every value a rebuild replaces was passed to
\* cleanup before the builder call that replaced it.
C23_RebuildKeepsCell ==
  shape = "builder_cleanup_deps" =>
    /\ firstRef # 0 => lastRef = firstRef
    /\ \A i \in 1..Len(log) :
         (log[i].op = "build" /\ BuildsBefore(i) # {}) =>
           \E j \in 1..(i - 1) :
             IsCleanup(log[j]) /\ log[j].val = LastBuiltBefore(i)

====
